---- MODULE Spec2Model ----
(***************************************************************************)
(* A model of src/HighPrecision/BigInteger.hh: the sign-and-magnitude      *)
(* arbitrary precision integer, its comparison, increment, addition,       *)
(* subtraction, NTT multiplication, limb-wise logic operators and its      *)
(* decimal stream input and output.                                        *)
(*                                                                         *)
(* A BigInteger is the record [negative, value]; value is the limb vector, *)
(* least significant limb first.  C++ indices are 0-based, sequences here  *)
(* are 1-based: the limb value[i] of the source is value[i + 1] here.      *)
(*                                                                         *)
(* Width.  The source keeps 32-bit limbs (base = 2^32) and computes in     *)
(* 64-bit intermediates, which hold every intermediate value of the code.  *)
(* The model checker's integers are 32 bits wide, so the limb width is the *)
(* parameter LimbBits and everything that the source derives from the      *)
(* width keeps its shape: base = 2^LimbBits, mod = 3 * 2^(LimbBits-2) + 1  *)
(* (a prime below base with root 5 a primitive root, for LimbBits = 8 as   *)
(* for 32), and the decimal chunk 10^logBase is the largest power of ten   *)
(* below base.  Stores into a limb are taken modulo base.                  *)
(*                                                                         *)
(* Reads outside a vector (trimLeadingZeros_, operator|=) are undefined    *)
(* behaviour: the limb read is a parameter that the actions choose freely  *)
(* from Garbage.                                                           *)
(***************************************************************************)
EXTENDS Integers, Sequences, FiniteSets, TLC

\* ------------------------------------------------------------ bounds
LimbBits == 8
MaxLimbs == 2
MaxSteps == 2
MaxK == 3
MaxDigits == 4
MaxZeros == 12
MaxInput == 3
MaxDepth == 3

\* ------------------------------------------------- class constants
base == 2^LimbBits
mod == 3 * 2^(LimbBits - 2) + 1
root == 5

Limb == 0 .. base - 1

\* Values an out-of-bounds read of a limb may produce.
Garbage == {0, 1, base - 1}

\* ---------------------------------------------------- bit operations
RECURSIVE BitAnd(_, _)
BitAnd(x, y) ==
  IF x = 0 \/ y = 0 THEN 0
  ELSE (x % 2) * (y % 2) + 2 * BitAnd(x \div 2, y \div 2)

RECURSIVE BitOr(_, _)
BitOr(x, y) ==
  IF x = 0 THEN y
  ELSE IF y = 0 THEN x
  ELSE (IF x % 2 = 1 \/ y % 2 = 1 THEN 1 ELSE 0) + 2 * BitOr(x \div 2, y \div 2)

RECURSIVE BitXor(_, _)
BitXor(x, y) ==
  IF x = 0 THEN y
  ELSE IF y = 0 THEN x
  ELSE ((x + y) % 2) + 2 * BitXor(x \div 2, y \div 2)

Abs(v) == IF v < 0 THEN -v ELSE v

Max(x, y) == IF x < y THEN y ELSE x

Min(x, y) == IF x < y THEN x ELSE y

\* The sequence f[1], ..., f[n] of a function f on 1 .. n.
RECURSIVE Vector(_, _)
Vector(f, n) == IF n = 0 THEN <<>> ELSE Append(Vector(f, n - 1), f[n])

\* std::vector::resize(n): cut, or extend with value-initialised (zero) limbs.
Resize(value, n) ==
  Vector([i \in 1 .. n |-> IF i <= Len(value) THEN value[i] ELSE 0], n)

\* ------------------------------------------------------ constructors
DefaultBigInteger == [negative |-> FALSE, value |-> <<0>>]

\* BigInteger(int64_t): C++ % and / truncate towards zero, so the limbs are
\* those of the absolute value.
Int64BigInteger(v) ==
  LET lo == Abs(v) % base
      hi == Abs(v) \div base
  IN [negative |-> v < 0,
      value |-> IF hi # 0 THEN <<lo, hi>> ELSE <<lo>>]

\* ---------------------------------------------------- normalisation
eliminateNegativeZero_(self) ==
  IF Len(self.value) = 1 /\ self.value[1] = 0
  THEN [self EXCEPT !.negative = FALSE]
  ELSE self

\* The loop of trimLeadingZeros_ from index len (0-based) down, inside the
\* vector: while (!value[len] && len) --len.
RECURSIVE TrimLoop(_, _)
TrimLoop(value, len) ==
  IF value[len + 1] = 0 /\ len # 0 THEN TrimLoop(value, len - 1) ELSE len

\* trimLeadingZeros_: len starts at size(), so the first test reads
\* value[size()], one past the end: g is the limb that read produces.
TrimLength(value, g) ==
  LET size == Len(value)
  IN IF g = 0 /\ size # 0 THEN TrimLoop(value, size - 1) ELSE size

trimLeadingZeros_(self, g) ==
  eliminateNegativeZero_(
    [self EXCEPT !.value = Resize(self.value, TrimLength(self.value, g) + 1)])

\* The 0-based indices trimLeadingZeros_ reads of a vector of the given size.
TrimReads(value, g) == TrimLength(value, g) .. Len(value)

\* --------------------------------------------------------- comparison
OpEq(lhs, rhs) ==
  /\ lhs.negative = rhs.negative
  /\ Len(lhs.value) = Len(rhs.value)
  /\ \A i \in 1 .. Len(lhs.value) : lhs.value[i] = rhs.value[i]

\* std::equal(first1, last1, first2, std::less): every pair satisfies <.
EqualByLess(lv, rv) == \A i \in 1 .. Len(lv) : lv[i] < rv[i]

OpLess(lhs, rhs) ==
  IF lhs.negative # rhs.negative THEN lhs.negative
  ELSE IF Len(lhs.value) # Len(rhs.value) THEN Len(lhs.value) < Len(rhs.value)
  ELSE lhs.negative # EqualByLess(lhs.value, rhs.value)

OpGreater(lhs, rhs) == OpLess(rhs, lhs)

\* ------------------------------------------------ increment, decrement
\* while (i != end && !++*i++): <<the limbs, the number of limbs visited>>.
RECURSIVE RippleUp(_, _)
RippleUp(value, i) ==
  IF i = Len(value) THEN <<value, i>>
  ELSE LET nv == (value[i + 1] + 1) % base
           next == [value EXCEPT ![i + 1] = nv]
       IN IF nv = 0 THEN RippleUp(next, i + 1) ELSE <<next, i + 1>>

\* while (i != end && !~--*i++)
RECURSIVE RippleDown(_, _)
RippleDown(value, i) ==
  IF i = Len(value) THEN <<value, i>>
  ELSE LET nv == (value[i + 1] + base - 1) % base
           next == [value EXCEPT ![i + 1] = nv]
       IN IF nv = base - 1 THEN RippleDown(next, i + 1) ELSE <<next, i + 1>>

\* The magnitude-growing side: ripple up, push 1 if *(i - 1) == 0.
GrowMagnitude(self) ==
  LET r == RippleUp(self.value, 0)
  IN [self EXCEPT !.value = IF r[1][r[2]] = 0 THEN Append(r[1], 1) ELSE r[1]]

\* The magnitude-shrinking side: ripple down, trim.
ShrinkMagnitude(self, g) ==
  trimLeadingZeros_([self EXCEPT !.value = RippleDown(self.value, 0)[1]], g)

OpPreInc(self, g) ==
  IF ~self.negative THEN GrowMagnitude(self) ELSE ShrinkMagnitude(self, g)

OpPreDec(self, g) ==
  IF ~self.negative THEN ShrinkMagnitude(self, g) ELSE GrowMagnitude(self)

\* ----------------------------------------------- addition, subtraction
\* A delegation that forgets to flip the sign of lhs.
KeepSign(self) == self

\* lhs.negative ^= 1
FlipSign(self) == [self EXCEPT !.negative = ~self.negative]

\* if (lhs.value.size() < rhs.value.size()) lhs.value.resize(rhs.value.size(), 0)
PadTo(lv, rv) == IF Len(lv) < Len(rv) THEN Resize(lv, Len(rv)) ELSE lv

\* The two carry loops of operator+= and the final push_back.
RECURSIVE AddLimbs(_, _, _, _)
AddLimbs(lv, rv, i, carry) ==
  IF i < Len(rv)
  THEN LET s == carry + lv[i + 1] + rv[i + 1]
       IN AddLimbs([lv EXCEPT ![i + 1] = s % base], rv, i + 1, s \div base)
  ELSE IF carry # 0 /\ i < Len(lv)
  THEN LET s == carry + lv[i + 1]
       IN AddLimbs([lv EXCEPT ![i + 1] = s % base], rv, i + 1, s \div base)
  ELSE IF carry # 0 THEN Append(lv, carry) ELSE lv

\* operator+=, the branch lhs.negative == rhs.negative.
AddSameSign(lhs, rhs) ==
  [lhs EXCEPT !.value = AddLimbs(PadTo(lhs.value, rhs.value), rhs.value, 0, 0)]

\* *i++ = value < 0 ? value + base : value
Wrap(v) == IF v < 0 THEN v + base ELSE v

\* value = value < 0 ? -1 : 0
Borrow(v) == IF v < 0 THEN -1 ELSE 0

\* The two borrow loops of the branch abs(lhs) > abs(rhs).
RECURSIVE SubLimbs(_, _, _, _)
SubLimbs(lv, rv, i, borrow) ==
  IF i < Len(rv)
  THEN LET v == borrow + lv[i + 1] - rv[i + 1]
       IN SubLimbs([lv EXCEPT ![i + 1] = Wrap(v) % base], rv, i + 1, Borrow(v))
  ELSE IF borrow # 0 /\ i < Len(lv)
  THEN LET v == borrow + lv[i + 1]
       IN SubLimbs([lv EXCEPT ![i + 1] = Wrap(v) % base], rv, i + 1, Borrow(v))
  ELSE lv

\* The borrow loop of the other branch: rhs - lhs over the limbs of rhs.
RECURSIVE RevSubLimbs(_, _, _, _)
RevSubLimbs(lv, rv, i, borrow) ==
  IF i < Len(rv)
  THEN LET v == borrow + rv[i + 1] - lv[i + 1]
       IN RevSubLimbs([lv EXCEPT ![i + 1] = Wrap(v) % base], rv, i + 1, Borrow(v))
  ELSE lv

\* (lhs > rhs) ^ lhs.negative, evaluated after lhs has been padded.
LhsIsLarger(lhs, rhs) == OpGreater(lhs, rhs) # lhs.negative

\* operator-=, the branch lhs.negative == rhs.negative.
SubSameSign(lhs, rhs, g) ==
  LET padded == [lhs EXCEPT !.value = PadTo(lhs.value, rhs.value)]
  IN trimLeadingZeros_(
       IF LhsIsLarger(padded, rhs)
       THEN [padded EXCEPT !.value = SubLimbs(padded.value, rhs.value, 0, 0)]
       ELSE [negative |-> ~padded.negative,
             value |-> RevSubLimbs(padded.value, rhs.value, 0, 0)],
       g)

\* operator+= and operator-= redirect to each other when the signs differ.
RECURSIVE OpPlusAssign(_, _, _)
RECURSIVE OpMinusAssign(_, _, _)
OpPlusAssign(lhs, rhs, g) ==
  IF lhs.negative = rhs.negative
  THEN AddSameSign(lhs, rhs)
  ELSE eliminateNegativeZero_(FlipSign(OpMinusAssign(FlipSign(lhs), rhs, g)))

OpMinusAssign(lhs, rhs, g) ==
  IF lhs.negative = rhs.negative
  THEN SubSameSign(lhs, rhs, g)
  ELSE FlipSign(OpPlusAssign(FlipSign(lhs), rhs, g))

\* ------------------------------------------------------ multiplication
\* do { if (expo & 1) retn = retn * base % mod;
\*      if (expo ^ 1) base = base * base % mod; } while (expo >>= 1);
RECURSIVE ModpowLoop(_, _, _)
ModpowLoop(retn, b, expo) ==
  LET retn2 == IF expo % 2 = 1 THEN (retn * b) % mod ELSE retn
      b2 == IF expo # 1 THEN (b * b) % mod ELSE b
      expo2 == expo \div 2
  IN IF expo2 # 0 THEN ModpowLoop(retn2, b2, expo2) ELSE retn2

modpow_(b, expo) == ModpowLoop(1, b, expo)

\* The loop of the extended Euclidean algorithm; only x decides the result.
RECURSIVE ModinvLoop(_, _, _, _, _, _)
ModinvLoop(m, n, r, q, x, xp) ==
  IF r # 0
  THEN ModinvLoop(n, r, n % r, n \div r, xp - q * x, x)
  ELSE x

modinv_(m, n) == ModinvLoop(m, n, m % n, m \div n, 0, 1) + n

\* The unit roots w[0 .. n-1] (0-based), reversed from w + 1 on for the inverse.
UnitRoots(n, g, inverse) ==
  LET w[i \in 0 .. n - 1] == IF i = 0 THEN 1 ELSE (w[i - 1] * g) % mod
  IN [i \in 0 .. n - 1 |-> IF inverse /\ i # 0 THEN w[n - i] ELSE w[i]]

\* for (size_t k = n; j < k; j ^= k) k >>= 1;
RECURSIVE NextReversed(_, _)
NextReversed(j, k) ==
  IF j < k THEN NextReversed(BitXor(j, k \div 2), k \div 2) ELSE j

Swap(value, i, j) ==
  [value EXCEPT ![i + 1] = value[j + 1], ![j + 1] = value[i + 1]]

\* The bit reversal permutation.
RECURSIVE BitReverse(_, _, _)
BitReverse(value, i, j) ==
  IF i = Len(value) THEN value
  ELSE BitReverse(IF i > j THEN Swap(value, i, j) ELSE value,
                  i + 1, NextReversed(j, Len(value)))

\* One butterfly: value[i + j + k] and value[j + k] (0-based).
Butterfly(value, w, i, I, j, k) ==
  LET lo == value[j + k + 1]
      z == (value[i + j + k + 1] * w[I * k]) % mod
      hi2 == IF lo < z THEN lo + mod - z ELSE lo - z
      lo2 == IF lo + z < mod THEN lo + z ELSE lo + z - mod
  IN [value EXCEPT ![i + j + k + 1] = hi2 % base, ![j + k + 1] = lo2 % base]

\* The three nested loops over i (with I), j and k.
RECURSIVE Butterflies(_, _, _, _, _, _)
Butterflies(value, w, i, I, j, k) ==
  IF I = 0 THEN value
  ELSE IF j = Len(value) THEN Butterflies(value, w, 2 * i, I \div 2, 0, 0)
  ELSE IF k = i THEN Butterflies(value, w, i, I, j + 2 * i, 0)
  ELSE Butterflies(Butterfly(value, w, i, I, j, k), w, i, I, j, k + 1)

\* NTT_ on the limbs of *this.
NTT_(value, logN, inverse) ==
  LET n == Len(value)
      g == modpow_(root, mod \div 2^logN)
      w == UnitRoots(n, g, inverse)
      inv == modinv_(n, mod)
      scaled == IF inverse
                THEN Vector([i \in 1 .. n |-> ((value[i] * inv) % mod) % base], n)
                ELSE value
  IN Butterflies(BitReverse(scaled, 0, 0), w, 1, n \div 2, 0, 0)

\* while (1 << logN < size << 1) ++logN;
RECURSIVE LogLoop(_, _)
LogLoop(logN, size) ==
  IF 2^logN < 2 * size THEN LogLoop(logN + 1, size) ELSE logN

\* operator*=: the sign of lhs is left as it was.
OpTimesAssign(lhs, rhs, g) ==
  LET size == Max(Len(lhs.value), Len(rhs.value))
      logN == LogLoop(0, size)
      n == 2^logN
      l == NTT_(Resize(lhs.value, n), logN, FALSE)
      r == NTT_(Resize(rhs.value, n), logN, FALSE)
      product == Vector([i \in 1 .. n |-> ((l[i] * r[i]) % mod) % base], n)
  IN trimLeadingZeros_([lhs EXCEPT !.value = NTT_(product, logN, TRUE)], g)

\* ------------------------------------------------------ logic operators
\* The limb of rhs at 0-based index i: past the end it is an out-of-bounds
\* read, which yields oob[i].
RhsLimb(rv, i, oob) == IF i < Len(rv) THEN rv[i + 1] ELSE oob[i]

OpAndAssign(lhs, rhs, g) ==
  LET lv == IF Len(lhs.value) > Len(rhs.value)
            THEN Resize(lhs.value, Len(rhs.value)) ELSE lhs.value
  IN trimLeadingZeros_(
       [negative |-> lhs.negative /\ rhs.negative,
        value |-> Vector([i \in 1 .. Len(lv) |-> BitAnd(lv[i], rhs.value[i])],
                        Len(lv))],
       g)

\* operator|= transforms over the whole of lhs and does not trim.
OpOrAssign(lhs, rhs, oob) ==
  LET lv == PadTo(lhs.value, rhs.value)
  IN [negative |-> lhs.negative \/ rhs.negative,
      value |-> Vector([i \in 1 .. Len(lv) |->
                          BitOr(lv[i], RhsLimb(rhs.value, i - 1, oob))],
                       Len(lv))]

\* The 0-based indices operator|= reads of rhs.value.
OrReads(lhs, rhs) == 0 .. Max(Len(lhs.value), Len(rhs.value)) - 1

OpXorAssign(lhs, rhs, g) ==
  LET size == Min(Len(lhs.value), Len(rhs.value))
      lv == IF Len(lhs.value) = size
            THEN lhs.value \o SubSeq(rhs.value, size + 1, Len(rhs.value))
            ELSE lhs.value
  IN trimLeadingZeros_(
       [negative |-> lhs.negative # rhs.negative,
        value |-> Vector([i \in 1 .. Len(lv) |->
                            IF i <= size THEN BitXor(lv[i], rhs.value[i])
                            ELSE lv[i]],
                         Len(lv))],
       g)

\* operator~: ++result; result.negative ^= 1.
OpNot(self, g) == FlipSign(OpPreInc(self, g))

\* ------------------------------------------------------------ streams
\* A std::istream over a character buffer: pos characters are consumed; eof
\* and fail are eofbit and failbit; basefield is flags() & basefield.
EOF == "EOF"

DigitChars == {"0", "1", "2", "3", "4", "5", "6", "7", "8", "9"}

DigitOf(c) ==
  CASE c = "0" -> 0 [] c = "1" -> 1 [] c = "2" -> 2 [] c = "3" -> 3
    [] c = "4" -> 4 [] c = "5" -> 5 [] c = "6" -> 6 [] c = "7" -> 7
    [] c = "8" -> 8 [] c = "9" -> 9

CharOf(d) == <<"0", "1", "2", "3", "4", "5", "6", "7", "8", "9">>[d + 1]

isdigit(c) == c \in DigitChars

isspace(c) == c = " "

good(is) == ~is.eof /\ ~is.fail

IStream(buf, basefield) ==
  [buf |-> buf, pos |-> 0, eof |-> FALSE, fail |-> FALSE, basefield |-> basefield]

\* The sentry's whitespace skip: the first position at or after pos that
\* holds no space.
RECURSIVE SkipWs(_, _)
SkipWs(buf, pos) ==
  IF pos < Len(buf) /\ isspace(buf[pos + 1]) THEN SkipWs(buf, pos + 1) ELSE pos

\* is >> cursor (a char): cursor keeps its old content when nothing is read.
ExtractChar(is, cursor) ==
  IF ~good(is) THEN [is |-> [is EXCEPT !.fail = TRUE], ch |-> cursor]
  ELSE LET p == SkipWs(is.buf, is.pos)
       IN IF p = Len(is.buf)
          THEN [is |-> [is EXCEPT !.pos = p, !.eof = TRUE, !.fail = TRUE],
                ch |-> cursor]
          ELSE [is |-> [is EXCEPT !.pos = p + 1], ch |-> is.buf[p + 1]]

\* is.get()
Get(is) ==
  IF ~good(is) THEN [is |-> [is EXCEPT !.fail = TRUE], ch |-> EOF]
  ELSE IF is.pos = Len(is.buf)
  THEN [is |-> [is EXCEPT !.eof = TRUE, !.fail = TRUE], ch |-> EOF]
  ELSE [is |-> [is EXCEPT !.pos = is.pos + 1], ch |-> is.buf[is.pos + 1]]

\* is.peek()
Peek(is) ==
  IF ~good(is) THEN [is |-> [is EXCEPT !.fail = TRUE], ch |-> EOF]
  ELSE IF is.pos = Len(is.buf)
  THEN [is |-> [is EXCEPT !.eof = TRUE], ch |-> EOF]
  ELSE [is |-> is, ch |-> is.buf[is.pos + 1]]

\* is.unget(): clears eofbit, then puts one character back unless the stream
\* has failed (with nothing to put back the stream fails too).
Unget(is) ==
  LET c == [is EXCEPT !.eof = FALSE]
  IN IF c.fail \/ c.pos = 0 THEN [c EXCEPT !.fail = TRUE]
     ELSE [c EXCEPT !.pos = c.pos - 1]

\* is.clear(std::ios::failbit)
ClearToFail(is) == [is EXCEPT !.eof = FALSE, !.fail = TRUE]

\* ------------------------------------------------------- decimal input
\* The size of a decimal chunk: the source's 9 for 32-bit limbs, the largest
\* power of ten below base.
logBase == (3 * LimbBits) \div 10

pow10(n) == 10^n

\* while (is.peek() == '0') is.get();
RECURSIVE SkipZeros(_)
SkipZeros(is) ==
  LET p == Peek(is)
  IN IF p.ch = "0" THEN SkipZeros(Get(p.is).is) ELSE p.is

\* The loop reading the digits into chunks, most significant chunk first.
RECURSIVE ReadDigits(_, _, _, _)
ReadDigits(is, value, logLen, decimal) ==
  LET p == Peek(is)
  IN IF isdigit(p.ch)
     THEN LET c == Get(p.is)
              v == value * 10 + DigitOf(c.ch)
          IN IF logLen + 1 = logBase
             THEN ReadDigits(c.is, 0, 0, Append(decimal, v % base))
             ELSE ReadDigits(c.is, v, logLen + 1, decimal)
     ELSE [is |-> p.is, value |-> value, logLen |-> logLen, decimal |-> decimal]

\* Right-aligns the last, partial chunk: prev and next are 1-based indices
\* walking from the back.
RECURSIVE Adjust(_, _, _, _)
Adjust(decimal, next, shift, len) ==
  IF next = 0 THEN decimal
  ELSE Adjust([decimal EXCEPT
                 ![next + 1] = (decimal[next + 1] + (decimal[next] % shift) * len) % base,
                 ![next] = decimal[next] \div shift],
              next - 1, shift, len)

\* for (Iter i = head; i != decimal.end(); ++i): one division of the chunks
\* from i on by base; <<the quotient chunks, the remainder>>.
RECURSIVE DivideChunks(_, _, _)
DivideChunks(decimal, i, value) ==
  IF i > Len(decimal) THEN <<decimal, value>>
  ELSE LET v == value * pow10(logBase) + decimal[i]
       IN DivideChunks([decimal EXCEPT ![i] = (v \div base) % base], i + 1, v % base)

\* Convert from base 10^logBase to base 2^LimbBits; head is a 1-based index.
RECURSIVE ToBinary(_, _, _)
ToBinary(decimal, head, value) ==
  IF head # Len(decimal)
  THEN LET d == DivideChunks(decimal, head + 1, decimal[head])
       IN ToBinary(d[1], head + 1, Append(value, d[2]))
  ELSE IF decimal[head] # 0 THEN Append(value, decimal[head]) ELSE value

\* A failure branch that resets the limbs and forgets the sign.
NoDigitKeepsSign(self, is) ==
  [is |-> ClearToFail(is), self |-> [self EXCEPT !.value = <<0>>]]

\* getDec_ finding no digit: negative = false, push_back(0), clear(failbit).
NoDigit(self, is) ==
  [is |-> ClearToFail(is), self |-> [negative |-> FALSE, value |-> <<0>>]]

\* getDec_: [is, self].
getDec_(self, is) ==
  LET first == Peek(is)
  IN IF ~isdigit(first.ch)
     THEN NoDigit(self, first.is)
     ELSE LET r == ReadDigits(SkipZeros(first.is), 0, 0, <<>>)
              decimal ==
                IF r.logLen # 0
                THEN Adjust(Append(r.decimal, r.value % base), Len(r.decimal),
                            pow10(logBase - r.logLen), pow10(r.logLen))
                ELSE r.decimal
          IN IF decimal = <<>>
             THEN [is |-> r.is, self |-> [negative |-> FALSE, value |-> <<0>>]]
             ELSE [is |-> r.is,
                   self |-> [self EXCEPT !.value = ToBinary(decimal, 1, <<>>)]]

\* operator>>: cursor0 is the content of the uninitialised cursor, which is
\* what the comparisons read when is >> cursor extracts nothing.
OpExtract(is, self, cursor0) ==
  LET first == ExtractChar(is, cursor0)
      signed == first.ch = "-" \/ first.ch = "+"
      after == IF signed THEN Get(first.is).is ELSE first.is
      target == [self EXCEPT !.negative = signed /\ first.ch = "-"]
      back == Unget(after)
  IN IF is.basefield = "dec" THEN getDec_(target, back)
     ELSE [is |-> back, self |-> target]

\* ------------------------------------------------------ decimal output
\* os << n for an unsigned n: its decimal digits, no padding.
RECURSIVE PutNumber(_)
PutNumber(n) ==
  IF n < 10 THEN <<CharOf(n)>>
  ELSE Append(PutNumber(n \div 10), CharOf(n % 10))

\* for (RevIter i = head; i != binary.rend(); ++i): one division of the
\* limbs from i down by 10^logBase; <<the quotient limbs, the remainder>>.
RECURSIVE DivideLimbs(_, _, _)
DivideLimbs(binary, i, value) ==
  IF i = 0 THEN <<binary, value>>
  ELSE LET v == BitOr(value * base, binary[i])
       IN DivideLimbs([binary EXCEPT ![i] = (v \div pow10(logBase)) % base],
                      i - 1, v % pow10(logBase))

\* Convert from base 2^LimbBits to base 10^logBase; head is the 1-based index
\* of the limb the reverse iterator head points at.
RECURSIVE ToDecimal(_, _, _)
ToDecimal(binary, head, decimal) ==
  IF head # 1
  THEN LET d == DivideLimbs(binary, head, 0)
       IN ToDecimal(d[1], IF d[1][head] = 0 THEN head - 1 ELSE head,
                    Append(decimal, d[2] % base))
  ELSE IF binary[head] # 0 THEN Append(decimal, binary[head]) ELSE decimal

\* Chunks written without their leading zeros.
NoPadding(n, j) == <<>>

\* for (j = logBase - 1; j != 0; --j) if (*i < pow10[j]) os.put('0'); else break;
RECURSIVE Padding(_, _)
Padding(n, j) ==
  IF j # 0 /\ n < pow10(j) THEN <<"0">> \o Padding(n, j - 1) ELSE <<>>

\* The chunks below the first one, most significant first, each padded.
RECURSIVE PutChunks(_, _)
PutChunks(decimal, i) ==
  IF i = 0 THEN <<>>
  ELSE Padding(decimal[i], logBase - 1) \o PutNumber(decimal[i])
         \o PutChunks(decimal, i - 1)

\* putDec_: the characters written.
putDec_(self) ==
  IF Len(self.value) = 1 /\ self.value[1] = 0 THEN <<"0">>
  ELSE LET decimal == ToDecimal(self.value, Len(self.value), <<>>)
       IN PutNumber(decimal[Len(decimal)]) \o PutChunks(decimal, Len(decimal) - 1)

\* operator<<: the characters written to a stream whose basefield is given.
OpInsert(basefield, self) ==
  (IF self.negative THEN <<"-">> ELSE <<>>)
    \o (IF basefield = "dec" THEN putDec_(self) ELSE <<>>)

\* wrappers: the binary operators copy lhs and apply the compound assignment.
OpPlus(lhs, rhs, g) == OpPlusAssign(lhs, rhs, g)

OpMinus(lhs, rhs, g) == OpMinusAssign(lhs, rhs, g)

OpTimes(lhs, rhs, g) == OpTimesAssign(lhs, rhs, g)

\* Whether the call reaches trimLeadingZeros_ (and so reads value[size()]).
PreIncTrims(self) == self.negative

PreDecTrims(self) == ~self.negative

PlusAssignTrims(lhs, rhs) == lhs.negative # rhs.negative

MinusAssignTrims(lhs, rhs) == lhs.negative = rhs.negative

\* ------------------------------------------------------------ the state
VARIABLES
  a,      \* the left operand, or the value an object held at first
  b,      \* the right operand
  self,   \* the object the operators act on
  other,  \* a second object, for the results to compare with
  cmp,    \* the results of operator<, operator== and operator>
  n,      \* the number of operator calls made on other
  hist,   \* the operators called so far
  mem,    \* oob: a read outside a vector happened; junk: one produced non-zero
  is,     \* the input stream
  os,     \* the characters written to the output stream
  stack,  \* the frames of the running operator+= and operator-= calls
  cnt,    \* delegations made and sign flips made back after a delegation
  pc      \* the phase of the run

vars == <<a, b, self, other, cmp, n, hist, mem, is, os, stack, cnt, pc>>

\* ----------------------------------------------------------- the inputs
\* The canonical BigIntegers of at most MaxLimbs limbs drawn from S.
RECURSIVE LimbSeqs(_, _)
LimbSeqs(S, len) ==
  IF len = 0 THEN {<<>>}
  ELSE {Append(v, x) : v \in LimbSeqs(S, len - 1), x \in S}

Canonical(x) ==
  /\ Len(x.value) >= 1
  /\ Len(x.value) > 1 => x.value[Len(x.value)] # 0
  /\ (Len(x.value) = 1 /\ x.value[1] = 0) => ~x.negative

CanonicalValues(S) ==
  {x \in [negative : BOOLEAN,
          value : UNION {LimbSeqs(S, len) : len \in 1 .. MaxLimbs}] : Canonical(x)}

Values == CanonicalValues({0, 1, 2, base - 1})

SignValues == CanonicalValues({0, 1, base - 1})

MulValues == CanonicalValues({0, 1, 2, base \div 2, mod, base - 1})

\* Arguments of the int64_t constructor (the model's int64_t is two limbs wide).
Int64Samples ==
  {0, 1, -1, 2, base - 1, 1 - base, base, -base, base + 1, mod, -mod,
   (base * base) \div 2 - 1}

Constructed == {DefaultBigInteger} \cup {Int64BigInteger(v) : v \in Int64Samples}

NoMem == [oob |-> FALSE, junk |-> FALSE]

NoStream == IStream(<<>>, "dec")

OStream(basefield) == [basefield |-> basefield, out |-> <<>>]

NoCmp == [lt |-> FALSE, eq |-> FALSE, gt |-> FALSE]

NoCnt == [deleg |-> 0, back |-> 0]

\* What a call that reads past the end when reads is TRUE, and gets g, records.
Remember(reads, g) ==
  [oob |-> mem.oob \/ reads, junk |-> mem.junk \/ (reads /\ g # 0)]

\* The garbage a call may see: any, when it reads past the end; else none.
Reads(reads) == IF reads THEN Garbage ELSE {0}

InitCommon ==
  /\ other = DefaultBigInteger
  /\ cmp = NoCmp
  /\ n = 0
  /\ hist = <<>>
  /\ mem = NoMem
  /\ is = NoStream
  /\ os = OStream("dec")
  /\ stack = <<>>
  /\ cnt = NoCnt
  /\ pc = "ready"

\* ===================================================== Spec: the operators
\* An object built by a constructor, and up to MaxSteps mutating operators
\* applied to it, with constructed right operands.
Init ==
  /\ a \in Constructed
  /\ b = DefaultBigInteger
  /\ self = a
  /\ InitCommon

Applied(name, result, rhs, reads, g) ==
  /\ Len(hist) < MaxSteps
  /\ self' = result
  /\ b' = rhs
  /\ hist' = Append(hist, name)
  /\ mem' = Remember(reads, g)
  /\ UNCHANGED <<a, other, cmp, n, is, os, stack, cnt, pc>>

PlusAssign ==
  \E rhs \in Constructed : \E g \in Reads(PlusAssignTrims(self, rhs)) :
    Applied("+=", OpPlusAssign(self, rhs, g), rhs, PlusAssignTrims(self, rhs), g)

MinusAssign ==
  \E rhs \in Constructed : \E g \in Reads(MinusAssignTrims(self, rhs)) :
    Applied("-=", OpMinusAssign(self, rhs, g), rhs, MinusAssignTrims(self, rhs), g)

TimesAssign ==
  \E rhs \in Constructed : \E g \in Garbage :
    Applied("*=", OpTimesAssign(self, rhs, g), rhs, TRUE, g)

AndAssign ==
  \E rhs \in Constructed : \E g \in Garbage :
    Applied("&=", OpAndAssign(self, rhs, g), rhs, TRUE, g)

OrAssign ==
  \E rhs \in Constructed :
    LET past == Len(self.value) > Len(rhs.value)
    IN \E g \in Reads(past) :
         Applied("|=", OpOrAssign(self, rhs, [i \in OrReads(self, rhs) |-> g]),
                 rhs, past, g)

XorAssign ==
  \E rhs \in Constructed : \E g \in Garbage :
    Applied("^=", OpXorAssign(self, rhs, g), rhs, TRUE, g)

PreInc ==
  \E g \in Reads(PreIncTrims(self)) :
    Applied("++", OpPreInc(self, g), b, PreIncTrims(self), g)

PreDec ==
  \E g \in Reads(PreDecTrims(self)) :
    Applied("--", OpPreDec(self, g), b, PreDecTrims(self), g)

Not ==
  \E g \in Reads(PreIncTrims(self)) :
    Applied("~", OpNot(self, g), b, PreIncTrims(self), g)

Next ==
  \/ PlusAssign
  \/ MinusAssign
  \/ TimesAssign
  \/ AndAssign
  \/ OrAssign
  \/ XorAssign
  \/ PreInc
  \/ PreDec
  \/ Not

Spec == Init /\ [][Next]_vars

\* C1: every value the operators produce from constructed values is canonical
\* (a limb, no most significant zero limb unless it is the single limb 0, no
\* negative zero), and no operator reads a limb outside a limb sequence.
C1_CanonicalAndInBounds == Canonical(self) /\ ~mem.oob

\* ================================================= SpecCmp: comparisons
\* Two canonical values and the three comparisons of them.
InitCmp ==
  /\ a \in Values
  /\ b \in Values
  /\ self = a
  /\ InitCommon

Compared(name, results) ==
  /\ \A i \in 1 .. Len(hist) : hist[i] # name
  /\ cmp' = results
  /\ hist' = Append(hist, name)
  /\ UNCHANGED <<a, b, self, other, n, mem, is, os, stack, cnt, pc>>

Less == Compared("<", [cmp EXCEPT !.lt = OpLess(a, b)])

Equal == Compared("==", [cmp EXCEPT !.eq = OpEq(a, b)])

Greater == Compared(">", [cmp EXCEPT !.gt = OpGreater(a, b)])

NextCmp == Less \/ Equal \/ Greater

SpecCmp == InitCmp /\ [][NextCmp]_vars

\* The integer a BigInteger denotes.
RECURSIVE Magnitude(_, _)
Magnitude(value, i) ==
  IF i > Len(value) THEN 0 ELSE value[i] + base * Magnitude(value, i + 1)

IntOf(x) == IF x.negative THEN -Magnitude(x.value, 1) ELSE Magnitude(x.value, 1)

Count(p) == IF p THEN 1 ELSE 0

\* C2: once a < b, a == b and a > b are all computed, exactly one is true.
C2_ExactlyOne ==
  Len(hist) = 3 => Count(cmp.lt) + Count(cmp.eq) + Count(cmp.gt) = 1

\* C3: for operands of equal sign, a < b is true exactly when the integer a
\* denotes is less than the integer b denotes.
C3_LessIsIntegerOrder ==
  (a.negative = b.negative /\ \E i \in 1 .. Len(hist) : hist[i] = "<")
    => (cmp.lt <=> IntOf(a) < IntOf(b))

\* ======================================= SpecSub: a - b against a + (-b)
\* -b: the sign flag flipped, zero left non-negative.
Negated(x) == eliminateNegativeZero_(FlipSign(x))

InitSub ==
  /\ a \in Values
  /\ b \in Values
  /\ self = a
  /\ InitCommon

\* self = a - b
Minus ==
  /\ \A i \in 1 .. Len(hist) : hist[i] # "-"
  /\ \E g \in Reads(MinusAssignTrims(a, b)) :
       /\ self' = OpMinus(a, b, g)
       /\ mem' = Remember(MinusAssignTrims(a, b), g)
  /\ hist' = Append(hist, "-")
  /\ UNCHANGED <<a, b, other, cmp, n, is, os, stack, cnt, pc>>

\* other = a + (-b)
PlusNegated ==
  /\ \A i \in 1 .. Len(hist) : hist[i] # "+"
  /\ \E g \in Reads(PlusAssignTrims(a, Negated(b))) :
       /\ other' = OpPlus(a, Negated(b), g)
       /\ mem' = Remember(PlusAssignTrims(a, Negated(b)), g)
  /\ hist' = Append(hist, "+")
  /\ UNCHANGED <<a, b, self, cmp, n, is, os, stack, cnt, pc>>

NextSub == Minus \/ PlusNegated

SpecSub == InitSub /\ [][NextSub]_vars

\* C4: a - b == a + (-b), also when every read past the end of a vector
\* produced zero.
C4_SubtractionIsAddingNegation ==
  (Len(hist) = 2 /\ ~mem.junk) => OpEq(self, other)

\* ========================================== SpecIncDec: ++ and -- in turn
InitIncDec ==
  /\ a \in Values
  /\ b = DefaultBigInteger
  /\ self = a
  /\ InitCommon

Stepped(name, result, reads, g) ==
  /\ Len(hist) < 2
  /\ self' = result
  /\ hist' = Append(hist, name)
  /\ mem' = Remember(reads, g)
  /\ UNCHANGED <<a, b, other, cmp, n, is, os, stack, cnt, pc>>

Increment ==
  \E g \in Reads(PreIncTrims(self)) :
    Stepped("++", OpPreInc(self, g), PreIncTrims(self), g)

Decrement ==
  \E g \in Reads(PreDecTrims(self)) :
    Stepped("--", OpPreDec(self, g), PreDecTrims(self), g)

NextIncDec == Increment \/ Decrement

SpecIncDec == InitIncDec /\ [][NextIncDec]_vars

\* C5: -- then ++, and ++ then --, give back a value equal to the first one,
\* also when every read past the end of a vector produced zero.
C5_IncDecInverse ==
  ((hist = <<"--", "++">> \/ hist = <<"++", "--">>) /\ ~mem.junk)
    => OpEq(self, a)

\* ===================================== SpecMul: a * b and repeated addition
InitMul ==
  /\ a \in MulValues
  /\ b \in {Int64BigInteger(k) : k \in -MaxK .. MaxK}
  /\ self = a
  /\ InitCommon

\* self = a * b
Times ==
  /\ hist = <<>>
  /\ \E g \in Garbage :
       /\ self' = OpTimes(a, b, g)
       /\ mem' = Remember(TRUE, g)
  /\ hist' = <<"*">>
  /\ UNCHANGED <<a, b, other, cmp, n, is, os, stack, cnt, pc>>

\* other += a, up to MaxK times, other being zero at first
AddAgain ==
  /\ n < MaxK
  /\ \E g \in Reads(PlusAssignTrims(other, a)) :
       /\ other' = OpPlusAssign(other, a, g)
       /\ mem' = Remember(PlusAssignTrims(other, a), g)
  /\ n' = n + 1
  /\ UNCHANGED <<a, b, self, cmp, hist, is, os, stack, cnt, pc>>

NextMul == Times \/ AddAgain

SpecMul == InitMul /\ [][NextMul]_vars

IsZero(x) == \A i \in 1 .. Len(x.value) : x.value[i] = 0

\* C6: the product of non-zero operands has the sign flag old a.negative XOR
\* b.negative, and a product with a zero operand is the non-negative zero,
\* also when every read past the end of a vector produced zero.
C6_ProductSign ==
  (hist = <<"*">> /\ ~mem.junk)
    => IF IsZero(a) \/ IsZero(b)
       THEN self = DefaultBigInteger
       ELSE self.negative = (a.negative # b.negative)

\* C7: a * k equals a added to zero k times, for a non-negative k, also when
\* every read past the end of a vector produced zero.
C7_ProductIsRepeatedSum ==
  (hist = <<"*">> /\ ~mem.junk /\ b = Int64BigInteger(n))
    => OpEq(self, other)

\* ============================================ SpecIO: operator>>, then <<
\* All the strings over the characters S of the given length.
RECURSIVE Strings(_, _)
Strings(S, len) ==
  IF len = 0 THEN {<<>>}
  ELSE {Append(t, c) : t \in Strings(S, len - 1), c \in S}

RECURSIVE Repeat(_, _)
Repeat(c, k) == IF k = 0 THEN <<>> ELSE Append(Repeat(c, k - 1), c)

\* An optional sign, then 1 .. MaxDigits digits.
DecimalInputs ==
  {sign \o digits :
     sign \in {<<>>, <<"-">>, <<"+">>},
     digits \in UNION {Strings({"0", "1", "5", "9"}, len) : len \in 1 .. MaxDigits}}

\* Longer numbers: a one and zeros, and nines.
LongInputs ==
  UNION {{<<"1">> \o Repeat("0", k), <<"-">> \o Repeat("9", k)} :
           k \in MaxDigits .. MaxZeros}

\* Anything made of signs, a letter, a space and a digit.
OtherInputs ==
  UNION {Strings({"-", "+", "a", " ", "5"}, len) : len \in 0 .. MaxInput}

Inputs == DecimalInputs \cup LongInputs \cup OtherInputs

\* What the uninitialised cursor may hold.
GarbageChars == {"-", "+", "a"}

InitIO ==
  /\ a \in {DefaultBigInteger, Int64BigInteger(-(base + 1))}
  /\ b = DefaultBigInteger
  /\ self = a
  /\ other = DefaultBigInteger
  /\ cmp = NoCmp
  /\ n = 0
  /\ hist = <<>>
  /\ mem = NoMem
  /\ is \in {IStream(buf, f) : buf \in Inputs, f \in {"dec", "hex"}}
  /\ os \in {OStream(f) : f \in {"dec", "hex"}}
  /\ stack = <<>>
  /\ cnt = NoCnt
  /\ pc = "ready"

\* is >> self
Extract ==
  /\ pc = "ready"
  /\ \E cursor0 \in IF SkipWs(is.buf, 0) = Len(is.buf) THEN GarbageChars ELSE {"a"} :
       LET r == OpExtract(is, self, cursor0)
       IN /\ is' = r.is
          /\ self' = r.self
  /\ pc' = "read"
  /\ UNCHANGED <<a, b, other, cmp, n, hist, mem, os, stack, cnt>>

\* os << self
Insert ==
  /\ pc = "read"
  /\ os' = [os EXCEPT !.out = os.out \o OpInsert(os.basefield, self)]
  /\ pc' = "written"
  /\ UNCHANGED <<a, b, self, other, cmp, n, hist, mem, is, stack, cnt>>

NextIO == Extract \/ Insert

SpecIO == InitIO /\ [][NextIO]_vars

IsSign(c) == c = "-" \/ c = "+"

\* The digits of s after its optional sign.
Unsigned(s) == IF s # <<>> /\ IsSign(s[1]) THEN Tail(s) ELSE s

\* s is an optional sign followed by one or more digits.
IsDecimalString(s) ==
  /\ Unsigned(s) # <<>>
  /\ \A i \in 1 .. Len(Unsigned(s)) : Unsigned(s)[i] \in DigitChars

RECURSIVE StripZeros(_)
StripZeros(s) == IF s # <<>> /\ s[1] = "0" THEN StripZeros(Tail(s)) ELSE s

\* The canonical form of a decimal string: "0" for zero, else a '-' if it is
\* negative, and the digits without leading zeros.
CanonicalForm(s) ==
  LET digits == StripZeros(Unsigned(s))
  IN IF digits = <<>> THEN <<"0">>
     ELSE (IF s[1] = "-" THEN <<"-">> ELSE <<>>) \o digits

\* C8: a decimal string read in decimal mode and written in decimal mode
\* comes out in its canonical form.
C8_RoundTrip ==
  (pc = "written" /\ is.basefield = "dec" /\ os.basefield = "dec"
     /\ IsDecimalString(is.buf))
    => os.out = CanonicalForm(is.buf)

C8_Witness ==
  /\ pc = "written"
  /\ is.buf = <<"-", "0", "9", "0", "5">>
  /\ is.basefield = "dec"
  /\ self.value = <<137, 3>>
  /\ os.out = <<"-", "9", "0", "5">>

\* The first character that is no space, and the one after an optional sign.
RECURSIVE FirstNonSpace(_)
FirstNonSpace(s) ==
  IF s # <<>> /\ s[1] = " " THEN FirstNonSpace(Tail(s)) ELSE s

HasNoDigit(s) ==
  LET t == Unsigned(FirstNonSpace(s))
  IN t = <<>> \/ t[1] \notin DigitChars

\* C9: when no digit follows the optional sign, a read in decimal mode leaves
\* the target the canonical zero, whatever it held, and the stream failed.
C9_MalformedInput ==
  (pc # "ready" /\ is.basefield = "dec" /\ HasNoDigit(is.buf))
    => (self = DefaultBigInteger /\ is.fail)

C9_Witness ==
  /\ pc = "read"
  /\ is.buf = <<"-", "a">>
  /\ is.basefield = "dec"
  /\ a.negative /\ Len(a.value) = 2
  /\ self = DefaultBigInteger
  /\ is.fail

\* =================================== SpecCall: the calls of += and -=
\* A frame is [op, at]: at "entry" the call has not tested the signs yet, at
\* "waiting" it has flipped the sign of lhs and called the other operator,
\* at "return" its body is done.
InitCall ==
  /\ a \in SignValues
  /\ b \in SignValues
  /\ self = a
  /\ other = b
  /\ cmp = NoCmp
  /\ n = 0
  /\ hist = <<>>
  /\ mem = NoMem
  /\ is = NoStream
  /\ os = OStream("dec")
  /\ stack = <<>>
  /\ cnt = NoCnt
  /\ pc = "ready"

Top == stack[Len(stack)]

SetTop(at) == [stack EXCEPT ![Len(stack)].at = at]

OtherOp(op) == IF op = "+=" THEN "-=" ELSE "+="

\* self += b or self -= b is called
Call(op) ==
  /\ pc = "ready"
  /\ stack' = <<[op |-> op, at |-> "entry"]>>
  /\ hist' = <<op>>
  /\ pc' = "running"
  /\ UNCHANGED <<a, b, self, other, cmp, n, mem, is, os, cnt>>

CallPlusAssign == Call("+=")

CallMinusAssign == Call("-=")

\* if (lhs.negative == rhs.negative) { ... }
SameSign ==
  /\ pc = "running"
  /\ Top.at = "entry"
  /\ self.negative = b.negative
  /\ \E g \in Reads(Top.op = "-=") :
       /\ self' = IF Top.op = "+=" THEN AddSameSign(self, b)
                  ELSE SubSameSign(self, b, g)
       /\ mem' = Remember(Top.op = "-=", g)
  /\ stack' = SetTop("return")
  /\ UNCHANGED <<a, b, other, cmp, n, hist, is, os, cnt, pc>>

\* else { lhs.negative ^= 1; lhs -= rhs (or lhs += rhs);
Delegate ==
  /\ pc = "running"
  /\ Top.at = "entry"
  /\ self.negative # b.negative
  /\ Len(stack) < MaxDepth
  /\ self' = FlipSign(self)
  /\ stack' = Append(SetTop("waiting"), [op |-> OtherOp(Top.op), at |-> "entry"])
  /\ cnt' = [cnt EXCEPT !.deleg = cnt.deleg + 1]
  /\ UNCHANGED <<a, b, other, cmp, n, hist, mem, is, os, pc>>

\* lhs.negative ^= 1; (and in +=: lhs.eliminateNegativeZero_();) }
Resume ==
  /\ pc = "running"
  /\ Top.at = "waiting"
  /\ self' = IF Top.op = "+=" THEN eliminateNegativeZero_(FlipSign(self))
             ELSE FlipSign(self)
  /\ stack' = SetTop("return")
  /\ cnt' = [cnt EXCEPT !.back = cnt.back + 1]
  /\ UNCHANGED <<a, b, other, cmp, n, hist, mem, is, os, pc>>

\* return lhs;
Return ==
  /\ pc = "running"
  /\ Top.at = "return"
  /\ stack' = SubSeq(stack, 1, Len(stack) - 1)
  /\ pc' = IF Len(stack) = 1 THEN "done" ELSE pc
  /\ UNCHANGED <<a, b, self, other, cmp, n, hist, mem, is, os, cnt>>

NextCall ==
  \/ CallPlusAssign
  \/ CallMinusAssign
  \/ SameSign
  \/ Delegate
  \/ Resume
  \/ Return

SpecCall == InitCall /\ [][NextCall]_vars

\* C10: a call with operands of different signs delegates to the other
\* operator once, the delegate takes its same-sign branch, so at most two
\* frames are ever live; and on return rhs is as it was and the sign of lhs
\* was flipped back once for the one delegation (never without one).
C10_DelegatesOnce ==
  /\ Len(stack) <= 2
  /\ \A i \in 2 .. Len(stack) :
       stack[i].at # "waiting" /\ stack[i].op = OtherOp(stack[i - 1].op)
  /\ cnt.back <= cnt.deleg
  /\ pc = "done" =>
       /\ cnt.deleg = Count(a.negative # b.negative)
       /\ cnt.back = cnt.deleg
       /\ b = other

C10_Witness ==
  /\ pc = "done"
  /\ hist = <<"+=">>
  /\ a.negative /\ ~b.negative
  /\ Len(a.value) = 2 /\ Len(b.value) = 1
  /\ cnt = [deleg |-> 1, back |-> 1]

====
